---- MODULE Spec2Model ----
(***************************************************************************)
(* State machine of the DataAnalysisReportGenerator component              *)
(* (src/src/App.tsx): the eight useState cells, the uploads whose file     *)
(* read is pending, the generation exchanges whose fetch is pending, and   *)
(* one action per handler step.                                            *)
(*                                                                         *)
(* Conventions.  A nullable cell holds Null (the empty tuple) or Some(x)   *)
(* (a one-element tuple).  A string that the code takes apart (a file      *)
(* name, the refinement directive, a report text) is a tuple of            *)
(* one-character strings.                                                  *)
(* A JavaScript scalar is a record [tag, v]; a row object is a tuple of    *)
(* [k, v] entries in key insertion order.                                  *)
(***************************************************************************)
EXTENDS Integers, Sequences, FiniteSets, Bags, TLC

VARIABLES file, fileName, data, headers, isAnalyzing, report, error,
          regeneratePrompt, uploads, exchanges, lastOp

vars == <<file, fileName, data, headers, isAnalyzing, report, error,
          regeneratePrompt, uploads, exchanges, lastOp>>

\* Bounds of the model: the number of promises (file reads and fetches) that
\* are awaited at the same time, and the number of rows of the datasets that
\* type inference is run on.
MaxPending == 2
MaxRows == 4

Null == <<>>
Some(x) == <<x>>

Range(s) == {s[i] : i \in 1..Len(s)}

----------------------------------------------------------------------------
\* JavaScript scalars held in a cell of a row.
Num(x) == [tag |-> "number", v |-> x]
Str(x) == [tag |-> "string", v |-> x]
JsNull == [tag |-> "null", v |-> ""]
Undefined == [tag |-> "undefined", v |-> ""]

\* row[header]: the value stored under the key, undefined when the key is absent.
Get(row, header) ==
  IF \E i \in 1..Len(row) : row[i].k = header
  THEN row[CHOOSE i \in 1..Len(row) : row[i].k = header].v
  ELSE Undefined

\* Object.keys(row): the keys in insertion order.
ObjectKeys(row) == [i \in 1..Len(row) |-> row[i].k]

\* The strings of the model that Date.parse turns into a time value.
ValidDateStrings == {"2023-01-01"}

\* !isNaN(Date.parse(sample)): the argument is converted to a string first;
\* "undefined", "null", "true", "" and "bad" are not dates.
DateParses(sample) ==
  \/ sample.tag = "date"
  \/ sample.tag = "string" /\ sample.v \in ValidDateStrings

\* Faulty variant: the filter also drops the empty string.
NotNullishNorEmpty(v) == v.tag \notin {"null", "undefined"} /\ v # Str("")

\* v != null (loose inequality): false for null and for undefined.
NotNullish(v) == v.tag \notin {"null", "undefined"}

\* Faulty variant: the filter is the strict v !== null, which keeps undefined.
ColumnTypeStrictNull(rows, header) ==
  LET column == [i \in 1..Len(rows) |-> Get(rows[i], header)]
      values == SelectSeq(column, LAMBDA v : v.tag # "null")
      sample == IF Len(values) > 0 THEN values[1] ELSE Undefined
  IN  IF sample.tag = "number" THEN "numeric"
      ELSE IF DateParses(sample) THEN "date"
      ELSE "text"

\* The body of the forEach callback for one header.
ColumnType(rows, header) ==
  LET column == [i \in 1..Len(rows) |-> Get(rows[i], header)]
      values == SelectSeq(column, NotNullish)
      sample == IF Len(values) > 0 THEN values[1] ELSE Undefined
  IN  IF sample.tag = "number" THEN "numeric"
      ELSE IF DateParses(sample) THEN "date"
      ELSE "text"

\* analyzeDataTypes(data, headers): one entry per distinct header.
analyzeDataTypes(rows, hs) == [h \in Range(hs) |-> ColumnType(rows, h)]

----------------------------------------------------------------------------
\* File names and their extension.
UpperChars == <<"A", "B", "C", "D", "E", "F", "G", "H", "I", "J", "K", "L", "M",
                "N", "O", "P", "Q", "R", "S", "T", "U", "V", "W", "X", "Y", "Z">>
LowerChars == <<"a", "b", "c", "d", "e", "f", "g", "h", "i", "j", "k", "l", "m",
                "n", "o", "p", "q", "r", "s", "t", "u", "v", "w", "x", "y", "z">>

\* String.prototype.toLowerCase, character by character.
ToLowerCase(s) ==
  [i \in 1..Len(s) |->
     IF \E n \in 1..Len(UpperChars) : UpperChars[n] = s[i]
     THEN LowerChars[CHOOSE n \in 1..Len(UpperChars) : UpperChars[n] = s[i]]
     ELSE s[i]]

\* String.prototype.split(sep): the pieces between the separators; a string
\* without the separator is its own single piece.
RECURSIVE Split(_, _)
Split(s, sep) ==
  IF \A i \in 1..Len(s) : s[i] # sep
  THEN <<s>>
  ELSE LET i == CHOOSE n \in 1..Len(s) :
                  s[n] = sep /\ \A j \in 1..(n - 1) : s[j] # sep
       IN  <<SubSeq(s, 1, i - 1)>> \o Split(SubSeq(s, i + 1, Len(s)), sep)

\* Faulty variant: the piece after the first dot is taken instead of the last piece.
fileExtensionFirstPiece(name) ==
  LET pieces == Split(name, ".")
  IN  ToLowerCase(IF Len(pieces) > 1 THEN pieces[2] ELSE pieces[1])

\* uploadedFile.name.split(".").pop()?.toLowerCase()
fileExtension(name) ==
  LET pieces == Split(name, ".")
  IN  ToLowerCase(pieces[Len(pieces)])

ExtCsv == <<"c", "s", "v">>
ExtXlsx == <<"x", "l", "s", "x">>
ExtXls == <<"x", "l", "s">>

----------------------------------------------------------------------------
\* What the two parsing libraries make of a file's content.  A content is
\* named by a token; TableOf gives the table it encodes (its header row and
\* its rows as objects), or says that it is corrupt.
SalesRows ==
  << <<[k |-> "region", v |-> Str("north")], [k |-> "amount", v |-> Num("5")]>>,
     <<[k |-> "region", v |-> Str("south")], [k |-> "amount", v |-> JsNull]>> >>
StaffRows ==
  << <<[k |-> "name", v |-> Str("bad")], [k |-> "hired", v |-> Str("2023-01-01")]>> >>

Sales == "sales"
Staff == "staff"
HeaderOnly == "headerOnly"
Corrupt == "corrupt"

TableOf(content) ==
  CASE content = Sales ->
         [corrupt |-> FALSE, fields |-> <<"region", "amount">>, rows |-> SalesRows]
    [] content = Staff ->
         [corrupt |-> FALSE, fields |-> <<"name", "hired">>, rows |-> StaffRows]
    [] content = HeaderOnly ->
         [corrupt |-> FALSE, fields |-> <<"sku", "price">>, rows |-> <<>>]
    [] content = Corrupt ->
         [corrupt |-> TRUE, fields |-> <<>>, rows |-> <<>>]

\* Papa.parse(text, {header: true, ...}): calls back complete(results) with
\* results.data and results.meta.fields, or error(err).
PapaParse(content) ==
  IF TableOf(content).corrupt
  THEN [callback |-> "error", data |-> <<>>, fields |-> Null]
  ELSE [callback |-> "complete", data |-> TableOf(content).rows,
        fields |-> Some(TableOf(content).fields)]

\* XLSX.read throws on a corrupt container.
XlsxReadThrows(content) == TableOf(content).corrupt

\* XLSX.utils.sheet_to_json(firstSheet, {defval: null}): one object per data row.
SheetToJson(content) == TableOf(content).rows

\* The files a user can pick.
Files ==
  { [name |-> <<"a", ".", "c", "s", "v">>, content |-> Sales],
    [name |-> <<"B", ".", "C", "S", "V">>, content |-> Corrupt],
    [name |-> <<"c", ".", "X", "l", "s", "x">>, content |-> Staff],
    [name |-> <<"d", ".", "x", "l", "s">>, content |-> HeaderOnly],
    [name |-> <<"a", ".", "c", "s", "v", ".", "t", "x", "t">>, content |-> Sales],
    [name |-> <<"c", "s", "v">>, content |-> HeaderOnly] }

----------------------------------------------------------------------------
\* The messages passed to setError (a caught error's own message is left out).
ErrUnsupported == "Please upload a CSV, XLS, or XLSX file"
ErrParseCsv == "Error parsing CSV"
ErrReadFile == "Error reading file"
ErrNoData == "No data to analyze"
ErrGenerationEmpty == "Failed to generate report"
ErrAnalysis == "Analysis error"
ErrExport == "Unable to open print window. Please check your browser settings."

\* The texts a first content segment can carry: a heading, or nothing.
ReportTexts == {<<"#", " ", "R">>, <<>>}

\* The texts typed into the refinement textarea.
Prompts == {<<>>, <<" ">>, <<"c", "o", "s", "t">>}

\* String.prototype.trim
RECURSIVE Trim(_)
Trim(s) ==
  IF Len(s) = 0 THEN s
  ELSE IF s[1] = " " THEN Trim(Tail(s))
  ELSE IF s[Len(s)] = " " THEN Trim(SubSeq(s, 1, Len(s) - 1))
  ELSE s

----------------------------------------------------------------------------
\* The markup renderer.  The elements it writes, as the characters of their
\* tags.
H1Open == <<"<", "h", "1", ">">>
H1Close == <<"<", "/", "h", "1", ">">>
H2Open == <<"<", "h", "2", ">">>
H2Close == <<"<", "/", "h", "2", ">">>
H3Open == <<"<", "h", "3", ">">>
H3Close == <<"<", "/", "h", "3", ">">>
StrongOpen == <<"<", "s", "t", "r", "o", "n", "g", ">">>
StrongClose == <<"<", "/", "s", "t", "r", "o", "n", "g", ">">>
EmOpen == <<"<", "e", "m", ">">>
EmClose == <<"<", "/", "e", "m", ">">>
ParagraphBreak == <<"<", "/", "p", ">", "<", "p", ">">>
LineBreak == <<"<", "b", "r", ">">>

\* Array.prototype.join(sep) on pieces of text.
RECURSIVE Join(_, _)
Join(pieces, sep) ==
  IF Len(pieces) = 1 THEN pieces[1]
  ELSE pieces[1] \o <<sep>> \o Join(Tail(pieces), sep)

\* replace(/^marker (.*$)/gim, open $1 close): every line that starts with
\* the marker and one space becomes the rest of the line inside the element.
ReplaceHeading(text, marker, open, close) ==
  LET prefix == marker \o <<" ">>
      lines == Split(text, "\n")
      Line(l) == IF /\ Len(l) >= Len(prefix)
                    /\ SubSeq(l, 1, Len(prefix)) = prefix
                 THEN open \o SubSeq(l, Len(prefix) + 1, Len(l)) \o close
                 ELSE l
  IN  Join([n \in 1..Len(lines) |-> Line(lines[n])], "\n")

\* replace(/mark(.*?)mark/g, open $1 close): from the left, an opening mark
\* is paired with the nearest later mark on the same line; the search goes on
\* after the closing mark.
RECURSIVE ReplaceSpan(_, _, _, _)
ReplaceSpan(text, mark, open, close) ==
  LET m == Len(mark)
      At(p) == p + m - 1 <= Len(text) /\ SubSeq(text, p, p + m - 1) = mark
      Closes(p) == {q \in (p + m)..Len(text) :
                      At(q) /\ \A j \in (p + m)..(q - 1) : text[j] # "\n"}
      Opens == {p \in 1..Len(text) : At(p) /\ Closes(p) # {}}
  IN  IF Opens = {} THEN text
      ELSE LET p == CHOOSE n \in Opens : \A k \in Opens : n <= k
               q == CHOOSE n \in Closes(p) : \A k \in Closes(p) : n <= k
           IN  SubSeq(text, 1, p - 1) \o open \o SubSeq(text, p + m, q - 1)
                 \o close
                 \o ReplaceSpan(SubSeq(text, q + m, Len(text)), mark, open, close)

\* replace(/pattern/g, by) for a pattern of literal characters.
RECURSIVE ReplaceAll(_, _, _)
ReplaceAll(text, pattern, by) ==
  LET m == Len(pattern)
  IN  IF Len(text) < m THEN text
      ELSE IF SubSeq(text, 1, m) = pattern
      THEN by \o ReplaceAll(SubSeq(text, m + 1, Len(text)), pattern, by)
      ELSE <<text[1]>> \o ReplaceAll(Tail(text), pattern, by)

\* Faulty variant: the single-asterisk pass runs before the double-asterisk
\* pass.
markedItalicFirst(text) ==
  LET h3 == ReplaceHeading(text, <<"#", "#", "#">>, H3Open, H3Close)
      h2 == ReplaceHeading(h3, <<"#", "#">>, H2Open, H2Close)
      h1 == ReplaceHeading(h2, <<"#">>, H1Open, H1Close)
      em == ReplaceSpan(h1, <<"*">>, EmOpen, EmClose)
      strong == ReplaceSpan(em, <<"*", "*">>, StrongOpen, StrongClose)
      paragraphs == ReplaceAll(strong, <<"\n", "\n">>, ParagraphBreak)
  IN  ReplaceAll(paragraphs, <<"\n">>, LineBreak)

\* Faulty variant: the rendered text is put inside a paragraph element.
markedInParagraph(text) ==
  LET h3 == ReplaceHeading(text, <<"#", "#", "#">>, H3Open, H3Close)
      h2 == ReplaceHeading(h3, <<"#", "#">>, H2Open, H2Close)
      h1 == ReplaceHeading(h2, <<"#">>, H1Open, H1Close)
      strong == ReplaceSpan(h1, <<"*", "*">>, StrongOpen, StrongClose)
      em == ReplaceSpan(strong, <<"*">>, EmOpen, EmClose)
      paragraphs == ReplaceAll(em, <<"\n", "\n">>, ParagraphBreak)
  IN  <<"<", "p", ">">> \o ReplaceAll(paragraphs, <<"\n">>, LineBreak)
        \o <<"<", "/", "p", ">">>

\* marked: the seven replacements in their order.
marked(text) ==
  LET h3 == ReplaceHeading(text, <<"#", "#", "#">>, H3Open, H3Close)
      h2 == ReplaceHeading(h3, <<"#", "#">>, H2Open, H2Close)
      h1 == ReplaceHeading(h2, <<"#">>, H1Open, H1Close)
      strong == ReplaceSpan(h1, <<"*", "*">>, StrongOpen, StrongClose)
      em == ReplaceSpan(strong, <<"*">>, EmOpen, EmClose)
      paragraphs == ReplaceAll(em, <<"\n", "\n">>, ParagraphBreak)
  IN  ReplaceAll(paragraphs, <<"\n">>, LineBreak)

----------------------------------------------------------------------------
\* The initial values of the useState cells; nothing is pending.
Init ==
  /\ file = Null
  /\ fileName = <<>>
  /\ data = Null
  /\ headers = <<>>
  /\ isAnalyzing = FALSE
  /\ report = Null
  /\ error = Null
  /\ regeneratePrompt = <<>>
  /\ uploads = EmptyBag
  /\ exchanges = EmptyBag
  /\ lastOp = [op |-> "mount", outcome |-> "mounted"]

\* The pending reads and the pending fetches are bags: the code keeps no order
\* among them, and the same file or request can be pending twice.
Pending(bag) == BagToSet(bag)
Add(bag, x) == bag (+) SetToBag({x})
Remove(bag, x) == bag (-) SetToBag({x})
Awaited == BagCardinality(uploads) + BagCardinality(exchanges)

\* What the rendered controls test.
Truthy(cell) == cell # Null /\ cell[1] # <<>>
DataPreviewShown == data # Null /\ Len(data[1]) > 0
GenerateEnabled == DataPreviewShown /\ ~isAnalyzing
ReportShown == Truthy(report)
\* Faulty variant: the Regenerate button tests the directive without trim().
RegenerateEnabledNoTrim ==
  ReportShown /\ ~(isAnalyzing \/ regeneratePrompt = <<>>)

RegenerateEnabled ==
  ReportShown /\ ~(isAnalyzing \/ Trim(regeneratePrompt) = <<>>)

----------------------------------------------------------------------------
\* handleFileUpload up to its first await: the file cell, the name, the error
\* and the report are set; a csv or spreadsheet file then waits for its read,
\* any other extension sets the error at once.
handleFileUpload(uploadedFile) ==
  LET fileExt == fileExtension(uploadedFile.name)
      kind == IF fileExt = ExtCsv THEN "csv"
              ELSE IF fileExt \in {ExtXlsx, ExtXls} THEN "xlsx"
              ELSE "other"
  IN  /\ kind # "other" => Awaited < MaxPending
      /\ fileName' = uploadedFile.name
      /\ file' = Some(uploadedFile)
      /\ report' = Null
      /\ IF kind = "other"
         THEN /\ error' = Some(ErrUnsupported)
              /\ uploads' = uploads
              /\ lastOp' = [op |-> "handleFileUpload", outcome |-> "unsupported"]
         ELSE /\ error' = Null
              /\ uploads' = Add(uploads, [file |-> uploadedFile, kind |-> kind])
              /\ lastOp' = [op |-> "handleFileUpload", outcome |-> "reading"]
      /\ UNCHANGED <<data, headers, isAnalyzing, regeneratePrompt, exchanges>>

\* handleFileUpload when the change event carries no file: it returns at once.
handleFileUploadNoFile == UNCHANGED vars

\* The read of a pending upload rejects (text() or arrayBuffer()), or
\* XLSX.read throws: the catch block sets the error.
UploadThrows(u) ==
  /\ error' = Some(ErrReadFile)
  /\ uploads' = Remove(uploads, u)
  /\ lastOp' = [op |-> "uploadSettled", outcome |-> "readError"]
  /\ UNCHANGED <<file, fileName, data, headers, isAnalyzing, report,
                 regeneratePrompt, exchanges>>

\* The text of a csv upload arrives and Papa.parse calls back.
CsvParsed(u) ==
  LET results == PapaParse(u.file.content)
  IN  /\ u.kind = "csv"
      /\ IF results.callback = "complete"
         THEN /\ headers' = (IF results.fields # Null THEN results.fields[1] ELSE <<>>)
              /\ data' = Some(results.data)
              /\ error' = error
              /\ lastOp' = [op |-> "uploadSettled", outcome |-> "loaded"]
         ELSE /\ error' = Some(ErrParseCsv)
              /\ UNCHANGED <<headers, data>>
              /\ lastOp' = [op |-> "uploadSettled", outcome |-> "parseError"]
      /\ uploads' = Remove(uploads, u)
      /\ UNCHANGED <<file, fileName, isAnalyzing, report, regeneratePrompt,
                     exchanges>>

\* Faulty variant: the spreadsheet branch sets the headers and forgets setData.
XlsxParsedHeadersOnly(u) ==
  LET jsonData == SheetToJson(u.file.content)
  IN  /\ u.kind = "xlsx"
      /\ ~XlsxReadThrows(u.file.content)
      /\ IF Len(jsonData) > 0
         THEN /\ headers' = ObjectKeys(jsonData[1])
              /\ data' = data
              /\ lastOp' = [op |-> "uploadSettled", outcome |-> "loaded"]
         ELSE /\ UNCHANGED <<headers, data>>
              /\ lastOp' = [op |-> "uploadSettled", outcome |-> "emptySheet"]
      /\ uploads' = Remove(uploads, u)
      /\ UNCHANGED <<file, fileName, isAnalyzing, report, error,
                     regeneratePrompt, exchanges>>

\* The bytes of a spreadsheet upload arrive and the first sheet is converted.
XlsxParsed(u) ==
  LET jsonData == SheetToJson(u.file.content)
  IN  /\ u.kind = "xlsx"
      /\ ~XlsxReadThrows(u.file.content)
      /\ IF Len(jsonData) > 0
         THEN /\ headers' = ObjectKeys(jsonData[1])
              /\ data' = Some(jsonData)
              /\ lastOp' = [op |-> "uploadSettled", outcome |-> "loaded"]
         ELSE /\ UNCHANGED <<headers, data>>
              /\ lastOp' = [op |-> "uploadSettled", outcome |-> "emptySheet"]
      /\ uploads' = Remove(uploads, u)
      /\ UNCHANGED <<file, fileName, isAnalyzing, report, error,
                     regeneratePrompt, exchanges>>

----------------------------------------------------------------------------
\* Faulty variant: the slice stops one row early.
SliceShort(rows, n) ==
  SubSeq(rows, 1, IF Len(rows) < n - 1 THEN Len(rows) ELSE n - 1)

\* data.slice(0, n)
Slice(rows, n) == SubSeq(rows, 1, IF Len(rows) < n THEN Len(rows) ELSE n)

SampleSize == 5

\* The dataSummary object built inside analyzeData.
DataSummary ==
  [fileName |-> fileName,
   rowCount |-> Len(data[1]),
   columns |-> headers,
   sampleData |-> Slice(data[1], SampleSize),
   dataTypes |-> analyzeDataTypes(data[1], headers)]

\* What the request's user prompt embeds: the directive in regeneration mode,
\* the summary and the full data.
UserPrompt(isRegenerate) ==
  [isRegenerate |-> isRegenerate,
   directive |-> IF isRegenerate THEN Some(regeneratePrompt) ELSE Null,
   dataSummary |-> DataSummary,
   data |-> data[1]]

\* !data || data.length === 0
NoRows == IF data = Null THEN TRUE ELSE Len(data[1]) = 0

\* Faulty variant: isAnalyzing is raised before the test for rows.
analyzeDataFlagFirst(isRegenerate) ==
  IF NoRows
  THEN /\ error' = Some(ErrNoData)
       /\ isAnalyzing' = TRUE
       /\ lastOp' = [op |-> "analyzeData", outcome |-> "noData",
                     isRegenerate |-> isRegenerate]
       /\ UNCHANGED <<file, fileName, data, headers, report,
                      regeneratePrompt, uploads, exchanges>>
  ELSE /\ Awaited < MaxPending
       /\ isAnalyzing' = TRUE
       /\ error' = Null
       /\ exchanges' = Add(exchanges, UserPrompt(isRegenerate))
       /\ lastOp' = [op |-> "analyzeData", outcome |-> "sent",
                     isRegenerate |-> isRegenerate]
       /\ UNCHANGED <<file, fileName, data, headers, report, regeneratePrompt,
                      uploads>>

\* analyzeData up to its await of fetch: without rows it sets the error and
\* returns; otherwise it raises isAnalyzing, clears the error and sends the
\* request.
analyzeData(isRegenerate) ==
  IF NoRows
  THEN /\ error' = Some(ErrNoData)
       /\ lastOp' = [op |-> "analyzeData", outcome |-> "noData",
                     isRegenerate |-> isRegenerate]
       /\ UNCHANGED <<file, fileName, data, headers, isAnalyzing, report,
                      regeneratePrompt, uploads, exchanges>>
  ELSE /\ Awaited < MaxPending
       /\ isAnalyzing' = TRUE
       /\ error' = Null
       /\ exchanges' = Add(exchanges, UserPrompt(isRegenerate))
       /\ lastOp' = [op |-> "analyzeData", outcome |-> "sent",
                     isRegenerate |-> isRegenerate]
       /\ UNCHANGED <<file, fileName, data, headers, report, regeneratePrompt,
                      uploads>>

\* The response of exchange x arrives with a first content segment; the step
\* records the rows that the answered request carried.
ExchangeSucceeds(x, reportText) ==
  /\ report' = Some(reportText)
  /\ regeneratePrompt' = <<>>
  /\ isAnalyzing' = FALSE
  /\ exchanges' = Remove(exchanges, x)
  /\ lastOp' = [op |-> "analysisSettled", outcome |-> "report",
                text |-> reportText, from |-> x.data]
  /\ UNCHANGED <<file, fileName, data, headers, error, uploads>>

\* Faulty variant: the directive is cleared on an empty response too.
ExchangeEmptyClearsPrompt(x) ==
  /\ error' = Some(ErrGenerationEmpty)
  /\ regeneratePrompt' = <<>>
  /\ isAnalyzing' = FALSE
  /\ exchanges' = Remove(exchanges, x)
  /\ lastOp' = [op |-> "analysisSettled", outcome |-> "empty"]
  /\ UNCHANGED <<file, fileName, data, headers, report, uploads>>

\* The response of exchange x arrives without a content segment.
ExchangeEmpty(x) ==
  /\ error' = Some(ErrGenerationEmpty)
  /\ isAnalyzing' = FALSE
  /\ exchanges' = Remove(exchanges, x)
  /\ lastOp' = [op |-> "analysisSettled", outcome |-> "empty"]
  /\ UNCHANGED <<file, fileName, data, headers, report, regeneratePrompt,
                 uploads>>

\* Faulty variant: the catch block also drops the held report.
ExchangeThrowsDropsReport(x) ==
  /\ error' = Some(ErrAnalysis)
  /\ report' = Null
  /\ isAnalyzing' = FALSE
  /\ exchanges' = Remove(exchanges, x)
  /\ lastOp' = [op |-> "analysisSettled", outcome |-> "transportError"]
  /\ UNCHANGED <<file, fileName, data, headers, regeneratePrompt, uploads>>

\* Faulty variant: no finally block, isAnalyzing stays raised after a rejection.
ExchangeThrowsNoFinally(x) ==
  /\ error' = Some(ErrAnalysis)
  /\ exchanges' = Remove(exchanges, x)
  /\ lastOp' = [op |-> "analysisSettled", outcome |-> "transportError"]
  /\ UNCHANGED <<file, fileName, data, headers, isAnalyzing, report,
                 regeneratePrompt, uploads>>

\* fetch or response.json() of exchange x rejects: the catch block runs.
ExchangeThrows(x) ==
  /\ error' = Some(ErrAnalysis)
  /\ isAnalyzing' = FALSE
  /\ exchanges' = Remove(exchanges, x)
  /\ lastOp' = [op |-> "analysisSettled", outcome |-> "transportError"]
  /\ UNCHANGED <<file, fileName, data, headers, report, regeneratePrompt,
                 uploads>>

\* downloadPDF: window.open gives a window, which is written (the file name
\* in the title, marked(report || "") in the body) and printed, or gives none
\* and the error is set.
downloadPDF(opened) ==
  /\ IF opened
     THEN /\ error' = error
          /\ lastOp' = [op |-> "downloadPDF", outcome |-> "printed",
                        title |-> fileName,
                        body |-> marked(IF Truthy(report) THEN report[1]
                                        ELSE <<>>)]
     ELSE /\ error' = Some(ErrExport)
          /\ lastOp' = [op |-> "downloadPDF", outcome |-> "blocked"]
  /\ UNCHANGED <<file, fileName, data, headers, isAnalyzing, report,
                 regeneratePrompt, uploads, exchanges>>

\* The textarea's onChange.
setRegeneratePrompt(value) ==
  /\ regeneratePrompt' = value
  /\ lastOp' = [op |-> "setRegeneratePrompt", outcome |-> "typed"]
  /\ UNCHANGED <<file, fileName, data, headers, isAnalyzing, report, error,
                 uploads, exchanges>>

----------------------------------------------------------------------------
\* The events of the rendered component.
SelectFile == \E f \in Files : handleFileUpload(f)
CancelFileDialog == handleFileUploadNoFile
UploadSettles ==
  \E u \in Pending(uploads) : UploadThrows(u) \/ CsvParsed(u) \/ XlsxParsed(u)
ClickGenerate == GenerateEnabled /\ analyzeData(FALSE)
ClickRegenerate == RegenerateEnabled /\ analyzeData(TRUE)
ExchangeSettles ==
  \E x \in Pending(exchanges) :
    \/ \E t \in ReportTexts : ExchangeSucceeds(x, t)
    \/ ExchangeEmpty(x)
    \/ ExchangeThrows(x)
ClickExport == ReportShown /\ \E opened \in BOOLEAN : downloadPDF(opened)
TypeDirective == ReportShown /\ \E p \in Prompts : setRegeneratePrompt(p)

Next ==
  \/ SelectFile
  \/ CancelFileDialog
  \/ UploadSettles
  \/ ClickGenerate
  \/ ClickRegenerate
  \/ ExchangeSettles
  \/ ClickExport
  \/ TypeDirective

Spec == Init /\ [][Next]_vars

\* analyzeData invoked as a function, whatever the buttons show.
CallAnalyzeData == \E isRegenerate \in BOOLEAN : analyzeData(isRegenerate)

NextDirect == Next \/ CallAnalyzeData

SpecDirect == Init /\ [][NextDirect]_vars

\* analyzeData invoked as a function while there are no rows to analyze.
CallAnalyzeDataNoRows ==
  /\ NoRows
  /\ \E isRegenerate \in BOOLEAN : analyzeData(isRegenerate)

NextNoData == Next \/ CallAnalyzeDataNoRows

SpecNoData == Init /\ [][NextNoData]_vars

\* The fetch of a pending exchange settles at some time: it resolves or rejects.
FairSpec == Spec /\ WF_vars(ExchangeSettles)

----------------------------------------------------------------------------
\* Type inference on every small dataset.  A cell holds one of these values
\* or is missing from its row.
CellValues ==
  {Num("5"), Num("6"), Str("2023-01-01"), Str("bad"), Str(""), JsNull, Undefined}

InferHeaders == <<"a", "b">>

\* The row object of a cell pair; a missing cell has no key.
RowOf(a, b) ==
  (IF a = Undefined THEN <<>> ELSE <<[k |-> "a", v |-> a]>>)
    \o (IF b = Undefined THEN <<>> ELSE <<[k |-> "b", v |-> b]>>)

\* Column a takes every sequence of cell values; column b holds the same
\* values in reverse row order, so that the two columns differ.
RowsOf(column) ==
  [i \in 1..Len(column) |-> RowOf(column[i], column[Len(column) + 1 - i])]

InferDatasets ==
  {RowsOf(column) : column \in UNION {[1..n -> CellValues] : n \in 1..MaxRows}}

\* The component right after a file with the given rows was loaded.
InitInfer ==
  \E rows \in InferDatasets :
    /\ file = Some([name |-> <<"a", ".", "c", "s", "v">>, content |-> "typed"])
    /\ fileName = <<"a", ".", "c", "s", "v">>
    /\ data = Some(rows)
    /\ headers = InferHeaders
    /\ isAnalyzing = FALSE
    /\ report = Null
    /\ error = Null
    /\ regeneratePrompt = <<>>
    /\ uploads = EmptyBag
    /\ exchanges = EmptyBag
    /\ lastOp = [op |-> "uploadSettled", outcome |-> "loaded"]

NextInfer == ClickGenerate

SpecInfer == InitInfer /\ [][NextInfer]_vars

----------------------------------------------------------------------------
\* The data summary on datasets shorter and longer than the sample.  Row i
\* holds its own number in column a, or null.
MaxSummaryRows == 7

SummaryHeaders == <<"a">>

SummaryRow(i, filled) ==
  <<[k |-> "a", v |-> IF filled THEN Num(ToString(i)) ELSE JsNull]>>

\* Every dataset of 1..MaxSummaryRows rows with any cells null, and one
\* dataset of 100 full rows.
SummaryDatasets ==
  {[i \in 1..Len(mask) |-> SummaryRow(i, mask[i])] :
     mask \in UNION {[1..n -> BOOLEAN] : n \in 1..MaxSummaryRows}}
    \cup {[i \in 1..100 |-> SummaryRow(i, TRUE)]}

\* The component right after a file with the given rows was loaded.
InitSummary ==
  \E rows \in SummaryDatasets :
    /\ file = Some([name |-> <<"a", ".", "c", "s", "v">>, content |-> "numbered"])
    /\ fileName = <<"a", ".", "c", "s", "v">>
    /\ data = Some(rows)
    /\ headers = SummaryHeaders
    /\ isAnalyzing = FALSE
    /\ report = Null
    /\ error = Null
    /\ regeneratePrompt = <<>>
    /\ uploads = EmptyBag
    /\ exchanges = EmptyBag
    /\ lastOp = [op |-> "uploadSettled", outcome |-> "loaded"]

NextSummary == ClickGenerate

SpecSummary == InitSummary /\ [][NextSummary]_vars

----------------------------------------------------------------------------
\* The export of reports that the service can have answered with: plain
\* texts, and documents made of a level-1 heading, a blank line and a
\* sentence with one bold and one italic span.
MaxText == 4

PlainChars == {"a", " ", "<"}

PlainTexts == UNION {[1..n -> PlainChars] : n \in 1..MaxText}

Titles == {<<"T">>, <<"a", " ", "b">>}
Bolds == {<<"b">>, <<"b", " ", "c">>}
Italics == {<<"i">>, <<"i", " ", "j">>}
Fillers == {<<>>, <<" ">>, <<"x">>}

\* The parts of a document: title, bold text, italic text, the plain text
\* before, between and after the two spans, and which span comes first.
DocumentParts ==
  [T : Titles, b : Bolds, i : Italics, pre : Fillers, mid : Fillers,
   post : Fillers, boldFirst : BOOLEAN]

BoldSpan(d) == <<"*", "*">> \o d.b \o <<"*", "*">>
ItalicSpan(d) == <<"*">> \o d.i \o <<"*">>

Document(d) ==
  <<"#", " ">> \o d.T \o <<"\n", "\n">> \o d.pre
    \o (IF d.boldFirst THEN BoldSpan(d) ELSE ItalicSpan(d)) \o d.mid
    \o (IF d.boldFirst THEN ItalicSpan(d) ELSE BoldSpan(d)) \o d.post

RenderTexts == PlainTexts \cup {Document(d) : d \in DocumentParts}

\* The component right after an analysis of a loaded file answered with the
\* given text.
InitRender ==
  \E text \in RenderTexts :
    /\ file = Some([name |-> <<"a", ".", "c", "s", "v">>, content |-> Sales])
    /\ fileName = <<"a", ".", "c", "s", "v">>
    /\ data = Some(SalesRows)
    /\ headers = TableOf(Sales).fields
    /\ isAnalyzing = FALSE
    /\ report = Some(text)
    /\ error = Null
    /\ regeneratePrompt = <<>>
    /\ uploads = EmptyBag
    /\ exchanges = EmptyBag
    /\ lastOp = [op |-> "analysisSettled", outcome |-> "report",
                 text |-> text, from |-> SalesRows]

NextRender == ClickExport

SpecRender == InitRender /\ [][NextRender]_vars

----------------------------------------------------------------------------
\* Properties.  lastOp names the handler step that produced the current state,
\* so lastOp' names the step being taken.

Settled(outcome) == lastOp.op = "analysisSettled" /\ lastOp.outcome = outcome

\* C1: at most one generation exchange is outstanding at any time, also when
\* analyzeData is called while an earlier exchange is pending.
C1_AtMostOneExchange == BagCardinality(exchanges) <= 1

\* The part of a name after its last dot (the whole name when it has none),
\* compared without regard to case.
NameEndsIn(name, ext) ==
  LET dots == {i \in 1..Len(name) : name[i] = "."}
      from == IF dots = {} THEN 1
              ELSE (CHOOSE i \in dots : \A j \in dots : j <= i) + 1
  IN  ToLowerCase(SubSeq(name, from, Len(name))) = ext

RecognisedName(name) ==
  NameEndsIn(name, ExtCsv) \/ NameEndsIn(name, ExtXlsx) \/ NameEndsIn(name, ExtXls)

\* C2: selecting a file whose extension is not csv, xlsx or xls sets the
\* unsupported-format error and leaves data and headers as they were.
C2_UnsupportedUploadKeepsDataset ==
  [][(lastOp'.op = "handleFileUpload" /\ ~RecognisedName(file'[1].name))
       => /\ error' = Some(ErrUnsupported)
          /\ data' = data
          /\ headers' = headers
          /\ uploads' = uploads]_vars

\* An unsupported file was selected while a dataset was loaded.
C2_Witness ==
  /\ lastOp.op = "handleFileUpload"
  /\ lastOp.outcome = "unsupported"
  /\ ~RecognisedName(fileName)
  /\ data # Null
  /\ error = Some(ErrUnsupported)

\* C3: analyzeData invoked without rows (data null or empty, either mode) sets
\* the no-data error, starts no exchange and leaves isAnalyzing, report and
\* regeneratePrompt alone.
C3_NoDataStartsNothing ==
  [][(lastOp'.op = "analyzeData" /\ NoRows)
       => /\ error' = Some(ErrNoData)
          /\ exchanges' = exchanges
          /\ isAnalyzing' = isAnalyzing
          /\ report' = report
          /\ regeneratePrompt' = regeneratePrompt]_vars

\* analyzeData was refused for want of rows while an exchange was pending.
C3_Witness ==
  /\ lastOp.op = "analyzeData"
  /\ lastOp.outcome = "noData"
  /\ NoRows
  /\ error = Some(ErrNoData)
  /\ isAnalyzing

\* C4: a settled exchange clears regeneratePrompt when it brings a first
\* content segment and leaves it as it was when it fails.
C4_DirectiveClearedOnSuccessOnly ==
  [][lastOp'.op = "analysisSettled"
       => IF lastOp'.outcome = "report"
          THEN regeneratePrompt' = <<>>
          ELSE regeneratePrompt' = regeneratePrompt]_vars

\* An exchange failed and the typed directive is still there.
C4_Witness ==
  /\ lastOp.op = "analysisSettled"
  /\ lastOp.outcome \in {"empty", "transportError"}
  /\ regeneratePrompt = <<"c", "o", "s", "t">>

\* The dataset cells hold nothing, or the rows and the fields of one file.
C5_Paired ==
  \/ data = Null /\ headers = <<>>
  \/ \E f \in Files :
       data = Some(TableOf(f.content).rows) /\ headers = TableOf(f.content).fields

\* A step of an upload either leaves both dataset cells alone, or is the
\* successful parse of a pending upload and sets both from its file; a failed
\* read or parse sets the error.
C5_Step ==
  lastOp'.op \in {"handleFileUpload", "uploadSettled"}
    => /\ \/ data' = data /\ headers' = headers
          \/ /\ lastOp'.outcome = "loaded"
             /\ \E u \in Pending(uploads) :
                  /\ uploads' = Remove(uploads, u)
                  /\ data' = Some(TableOf(u.file.content).rows)
                  /\ headers' = TableOf(u.file.content).fields
       /\ lastOp'.outcome \in {"readError", "parseError", "unsupported"}
            => error' # Null /\ data' = data /\ headers' = headers

\* C5: dataset replacement is atomic: data and headers always come from the
\* same file, an upload replaces both or neither, and a failed one neither.
C5_AtomicReplacement == []C5_Paired /\ [][C5_Step]_vars

\* A csv parse failed while a dataset was loaded, which is still there.
C5_Witness ==
  /\ lastOp.op = "uploadSettled"
  /\ lastOp.outcome = "parseError"
  /\ error = Some(ErrParseCsv)
  /\ data = Some(StaffRows)
  /\ headers = TableOf(Staff).fields

\* C6 as claimed: a held report keeps its value across every step but a
\* successful analysis.
C6_ReportKeptUntilNextSuccess ==
  [][(report # Null /\ ~(lastOp'.op = "analysisSettled" /\ lastOp'.outcome = "report"))
       => report' = report]_vars

\* C6 as amended: the report changes only when an analysis settles with a
\* first content segment, which becomes the report, or when a file is
\* selected, which clears it.
C6_ReportChangedBySuccessOrSelection ==
  [][report' # report
       => \/ /\ lastOp'.op = "analysisSettled"
             /\ lastOp'.outcome = "report"
             /\ report' = Some(lastOp'.text)
          \/ /\ lastOp'.op = "handleFileUpload"
             /\ report' = Null]_vars

\* An analysis failed and the earlier report is still held.
C6_Witness ==
  /\ lastOp.op = "analysisSettled"
  /\ lastOp.outcome = "transportError"
  /\ report = Some(<<"#", " ", "R">>)

\* C7: every operation clears the previous error before its own work: after
\* the step that starts an upload, an analysis or an export, error is null
\* unless that step itself failed, and then it is that step's own error.
C7_OperationClearsPreviousError ==
  [][/\ lastOp'.op = "handleFileUpload"
          => error' = (IF lastOp'.outcome = "unsupported"
                       THEN Some(ErrUnsupported) ELSE Null)
     /\ lastOp'.op = "analyzeData"
          => error' = (IF lastOp'.outcome = "noData"
                       THEN Some(ErrNoData) ELSE Null)
     /\ lastOp'.op = "downloadPDF"
          => error' = (IF lastOp'.outcome = "blocked"
                       THEN Some(ErrExport) ELSE Null)]_vars

\* What a settling exchange does: isAnalyzing falls, and either the segment
\* becomes the report and the error is not set, or the error is set and the
\* report is kept.
C8_Step ==
  lastOp'.op = "analysisSettled"
    => /\ ~isAnalyzing'
       /\ lastOp'.outcome = "report"
            => report' = Some(lastOp'.text) /\ error' = error
       /\ lastOp'.outcome = "empty"
            => error' = Some(ErrGenerationEmpty) /\ report' = report
       /\ lastOp'.outcome = "transportError"
            => error' = Some(ErrAnalysis) /\ report' = report
       /\ lastOp'.outcome \in {"report", "empty", "transportError"}

\* After a failed analysis a file can be selected, and the analysis can be
\* started again when rows are loaded.
C8_Usable ==
  (Settled("empty") \/ Settled("transportError"))
    => /\ ~isAnalyzing
       /\ ENABLED SelectFile
       /\ DataPreviewShown => ENABLED ClickGenerate

\* C8: an analysis that starts an exchange finishes, with isAnalyzing false
\* and exactly one outcome, and leaves the component usable.
C8_AnalysisFinishes ==
  /\ [][C8_Step]_vars
  /\ []C8_Usable
  /\ (exchanges # EmptyBag) ~> (exchanges = EmptyBag /\ ~isAnalyzing)

\* An exchange was rejected: the error is set, the report is kept.
C8_Witness ==
  /\ Settled("transportError")
  /\ ~isAnalyzing
  /\ error = Some(ErrAnalysis)
  /\ report = Some(<<"#", " ", "R">>)
  /\ exchanges = EmptyBag

----------------------------------------------------------------------------
\* Type inference, stated from the column's values.

\* The column of a header, row by row.
ColumnOf(rows, header) == [i \in 1..Len(rows) |-> Get(rows[i], header)]

\* The type of the first value of the column that passes the test, text when
\* none does.
TypeOfFirst(column, Passes(_)) ==
  LET hits == {i \in 1..Len(column) : Passes(column[i])}
  IN  IF hits = {} THEN "text"
      ELSE LET first == column[CHOOSE i \in hits : \A j \in hits : i <= j]
           IN  IF first.tag = "number" THEN "numeric"
               ELSE IF first.tag = "string" /\ first.v \in ValidDateStrings
                    THEN "date"
               ELSE "text"

IsValue(v) == v # JsNull /\ v # Undefined
IsValueNotEmpty(v) == IsValue(v) /\ v # Str("")

\* C9: every column of a request's summary has the type of the first non-null
\* value of that column: numeric for a number, date for a date string, text
\* otherwise and when the column has no value.
C9_TypeOfFirstNonNull ==
  \A x \in Pending(exchanges) :
    /\ DOMAIN x.dataSummary.dataTypes = Range(x.dataSummary.columns)
    /\ \A h \in Range(x.dataSummary.columns) :
         x.dataSummary.dataTypes[h] = TypeOfFirst(ColumnOf(x.data, h), IsValue)

\* A column null, date string, number is a date column; its reverse is numeric.
C9_Witness ==
  \E x \in Pending(exchanges) :
    /\ ColumnOf(x.data, "a") = <<JsNull, Str("2023-01-01"), Num("5")>>
    /\ x.dataSummary.dataTypes["a"] = "date"
    /\ x.dataSummary.dataTypes["b"] = "numeric"

\* C10 as claimed: the sample is the first value that is neither null nor
\* empty, so the column "", null, 5, 6 is numeric.
C10_EmptyStringSkipped ==
  \A x \in Pending(exchanges) :
    \A h \in Range(x.dataSummary.columns) :
      x.dataSummary.dataTypes[h] = TypeOfFirst(ColumnOf(x.data, h), IsValueNotEmpty)

\* C10 as amended: an empty string is a value like any other: a column whose
\* first non-null value is the empty string is a text column.
C10_EmptyStringIsTheSample ==
  \A x \in Pending(exchanges) :
    \A h \in Range(x.dataSummary.columns) :
      LET column == ColumnOf(x.data, h)
      IN  (\E i \in 1..Len(column) :
             /\ column[i] = Str("")
             /\ \A j \in 1..(i - 1) : ~IsValue(column[j]))
            => x.dataSummary.dataTypes[h] = "text"

\* The column "", null, 5, 6 was inferred, as text.
C10_Witness ==
  \E x \in Pending(exchanges) :
    /\ ColumnOf(x.data, "a") = <<Str(""), JsNull, Num("5"), Num("6")>>
    /\ x.dataSummary.dataTypes["a"] = "text"

\* C11: for a dataset of n >= 1 rows the summary built by analyzeData has
\* rowCount = n and sampleData = the first min(5, n) rows of data in their
\* order (3 rows for n = 3, 5 rows for n = 100), and building it leaves data
\* and headers as they were.
C11_SummaryCountsAndSamples ==
  [][(lastOp'.op = "analyzeData" /\ lastOp'.outcome = "sent")
       => /\ \A x \in Pending(exchanges') :
               ~BagIn(x, exchanges) =>
                 LET n == Len(data[1])
                     sample == x.dataSummary.sampleData
                 IN  /\ n >= 1
                     /\ x.dataSummary.rowCount = n
                     /\ Len(sample) = (IF n < 5 THEN n ELSE 5)
                     /\ \A i \in 1..Len(sample) : sample[i] = data[1][i]
          /\ data' = data
          /\ headers' = headers]_vars

\* A request is out for the dataset of 100 rows with a sample of five.
C11_Witness ==
  /\ lastOp.op = "analyzeData"
  /\ \E x \in Pending(exchanges) :
       /\ x.dataSummary.rowCount = 100
       /\ Len(x.dataSummary.sampleData) = 5
       /\ data = Some(x.data)

\* The document that the export just wrote holds the given rendering of the
\* held report.
Printed == lastOp.op = "downloadPDF" /\ lastOp.outcome = "printed"

\* The rendering in which the heading element holds exactly the title, the
\* strong element exactly the bold text and the em element exactly the italic
\* text, with one paragraph boundary after the heading.
ExpectedRendering(d) ==
  LET strong == StrongOpen \o d.b \o StrongClose
      em == EmOpen \o d.i \o EmClose
  IN  H1Open \o d.T \o H1Close \o ParagraphBreak \o d.pre
        \o (IF d.boldFirst THEN strong ELSE em) \o d.mid
        \o (IF d.boldFirst THEN em ELSE strong) \o d.post

\* The italic span comes first and the bold span follows it at once.
ItalicTouchesBold(d) == ~d.boldFirst /\ d.mid = <<>>

\* C12 as stated: every document "# T", blank line, sentence with one **b**
\* and one *i* is rendered with h1 exactly around T, strong exactly around b,
\* em exactly around i and one paragraph boundary in between.
C12_HeadingBoldItalicRendered ==
  \A d \in DocumentParts :
    (Printed /\ report = Some(Document(d)))
      => lastOp.body = ExpectedRendering(d)

\* C12, amended: the same, for every such document in which the italic span
\* is not immediately followed by the bold span.
C12_RenderedUnlessItalicTouchesBold ==
  \A d \in DocumentParts :
    (Printed /\ report = Some(Document(d)) /\ ~ItalicTouchesBold(d))
      => lastOp.body = ExpectedRendering(d)

\* The document "# T", blank line, "x**b** *i*x" was exported.
C12_Witness ==
  /\ Printed
  /\ report = Some(<<"#", " ", "T", "\n", "\n", "x", "*", "*", "b", "*", "*",
                     " ", "*", "i", "*", "x">>)
  /\ lastOp.body = H1Open \o <<"T">> \o H1Close \o ParagraphBreak \o <<"x">>
                     \o StrongOpen \o <<"b">> \o StrongClose \o <<" ">>
                     \o EmOpen \o <<"i">> \o EmClose \o <<"x">>

\* The text holds the piece somewhere.
Contains(text, piece) ==
  \E p \in 1..(Len(text) - Len(piece) + 1) :
    SubSeq(text, p, p + Len(piece) - 1) = piece

HasHeadingOrEmphasis(text) ==
  \E tag \in {H1Open, H2Open, H3Open, StrongOpen, EmOpen} : Contains(text, tag)

\* The report has no heading marker, no emphasis marker and no line break.
PlainReport ==
  report # Null /\ \A n \in 1..Len(report[1]) : report[1][n] \notin {"#", "*", "\n"}

\* C13 as stated: on plain text the output of marked is the input wrapped in
\* a paragraph element, has no heading or emphasis element, and rendering the
\* output again returns it unchanged.
C13_PlainTextParagraphWrapped ==
  (Printed /\ PlainReport)
    => /\ lastOp.body = <<"<", "p", ">">> \o report[1] \o <<"<", "/", "p", ">">>
       /\ ~HasHeadingOrEmphasis(lastOp.body)
       /\ marked(lastOp.body) = lastOp.body

\* C13, amended: on plain text the output of marked is the input itself, with
\* no paragraph element around it and no heading or emphasis element, and
\* rendering the output again returns it unchanged.
C13_PlainTextUnchanged ==
  (Printed /\ PlainReport)
    => /\ lastOp.body = report[1]
       /\ ~HasHeadingOrEmphasis(lastOp.body)
       /\ marked(lastOp.body) = lastOp.body

\* A plain text with a space and an angle bracket was exported.
C13_Witness ==
  /\ Printed
  /\ report = Some(<<"a", " ", "<", "a">>)
  /\ lastOp.body = <<"a", " ", "<", "a">>

\* What the parse of a file gives when its read succeeds: the rows and the
\* column names.
RowsOfFile(f) == TableOf(f.content).rows
FieldsOfFile(f) == TableOf(f.content).fields

\* C14: a parse whose selection has been superseded by a later one never
\* writes data or headers, and when an upload has loaded rows and no upload is
\* pending any more, the dataset is the one parsed from the file selected
\* last.
C14_SupersededParseNeverWrites ==
  /\ [][\A u \in Pending(uploads) :
          (uploads' = Remove(uploads, u) /\ file # Some(u.file))
            => (data' = data /\ headers' = headers)]_vars
  /\ []((lastOp.op = "uploadSettled" /\ lastOp.outcome = "loaded"
          /\ uploads = EmptyBag)
          => (data = Some(RowsOfFile(file[1]))
              /\ headers = FieldsOfFile(file[1])))

\* C15: data is null or holds at least one row.
C15_DataNullOrNonEmpty == data = Null \/ Len(data[1]) >= 1

\* C16: every pending regeneration request carries a directive whose trimmed
\* text is not empty.
C16_RegenerationHasDirective ==
  \A x \in Pending(exchanges) :
    x.isRegenerate => (x.directive # Null /\ Trim(x.directive[1]) # <<>>)

\* A regeneration request with the directive "cost" is pending.
C16_Witness ==
  \E x \in Pending(exchanges) :
    x.isRegenerate /\ x.directive = Some(<<"c", "o", "s", "t">>)

\* C17: when a completing analysis has stored its report and no analysis is
\* outstanding, the report was generated from the rows that data holds.
C17_ReportBelongsToDataset ==
  (Settled("report") /\ report # Null /\ exchanges = EmptyBag)
    => data = Some(lastOp.from)

\* C18: when data is loaded and no upload is pending, fileName is the name of
\* the file that data and headers were parsed from.
C18_FileNameNamesSource ==
  (data # Null /\ uploads = EmptyBag)
    => \E f \in Files :
         /\ f.name = fileName
         /\ RecognisedName(f.name)
         /\ ~TableOf(f.content).corrupt
         /\ data = Some(RowsOfFile(f))
         /\ headers = FieldsOfFile(f)

====
